---- MODULE Spec2Model ----
(***************************************************************************)
(* infoclash: the write-behind ingestion pipeline (Poller, Live Cache,     *)
(* Flusher, shutdown flush) and the merge/archive engine, as state         *)
(* machines over the Live Cache, the Primary Store (table connections) and *)
(* the Archive Store (table connections_archive).                          *)
(*                                                                         *)
(* Conventions.                                                            *)
(*  - A Connection is a record with the Go struct's fields (Metadata is    *)
(*    flattened): ID, SourceIP, Host, RemoteDestination, Upload, Download, *)
(*    Start, Chains.  Start is a whole number of seconds (time.Time at     *)
(*    second resolution), so Start.Unix() and time.Unix(start, 0) are      *)
(*    exact.                                                               *)
(*  - A row of connections is a record id, sourceIP, host, upload,         *)
(*    download, start, chain; a row of connections_archive adds            *)
(*    archived_at.  The Primary Store is a set of rows with pairwise       *)
(*    different id (PRIMARY KEY); the Archive Store is a sequence of rows  *)
(*    (no key, rows are only appended).                                    *)
(*  - Byte counters are uint64 in the code; every value of the model is    *)
(*    far below 2^63, where + is exact.                                    *)
(*  - A SQLite write transaction is serialised against the other writers   *)
(*    of the same database, so a transaction takes effect in one step, at  *)
(*    its commit.                                                          *)
(***************************************************************************)
EXTENDS Integers, Sequences, FiniteSets, TLC

VARIABLES
    connectionsCache,   \* sync.Map: ID -> Connection, NoConn when the key is absent
    store,              \* Primary Store: the rows of table connections
    archive,            \* Archive Store: the rows of connections_archive, in insertion order
    pollErr,            \* Poller: whether the last GetClashConnections returned an error
    flPc,               \* per caller of writeCacheToDB: "idle" | "collected" | "saved"
    connsToSave,        \* per caller of writeCacheToDB: the collected batch
    saveErr,            \* per caller of writeCacheToDB: err of the last BulkUpsertConnections
    mainPc,             \* main goroutine: "waiting" | "signalled" | "flushing" | "exited"
    cachedAtSignal,     \* history: what the cache held for hosts when <-quitChan returned
    mPc,                \* per merge handler: "idle" | "queried" | "archiveCommit" | "done"
    mReq,               \* per merge handler: the decoded MergeRequest
    connectionsToMerge, \* per merge handler: the Connections scanned from the query
    mergedConnections,  \* per merge handler: groupKey -> Connection, in first-seen order
    tx,                 \* per merge handler: Primary Store transaction
    archiveTx,          \* per merge handler: Archive Store transaction
    archivePending,     \* per merge handler: rows inserted in archiveTx, not yet committed
    mErr,               \* per merge handler: whether the local variable err is set
    response,           \* per merge handler: HTTP status written, "none" before the first
    uuidCount,          \* ids uuid.New() has handed to committed merges
    mergeCount,         \* merge requests served
    archiveLocked,      \* an archive transaction was left open and holds the write lock
    hostSuffixWhitelist, \* cfg.HostSuffixWhitelist, fixed once LoadConfig has returned
    lastObserved,       \* history: per id, the totals of the record the Poller stored last
    active,             \* the Source: the ids in the connection list of the Clash API
    osEnv,              \* the process environment: key -> <<value>>, <<>> when not set
    cfg                 \* the Config fields LoadConfig resolves with getValue and Atoi

pipeVars == <<connectionsCache, pollErr, flPc, connsToSave, saveErr, mainPc, cachedAtSignal>>

mergeVars == <<mPc, mReq, connectionsToMerge, mergedConnections, tx, archiveTx,
               archivePending, mErr, response, uuidCount, mergeCount, archiveLocked>>

cfgVars == <<hostSuffixWhitelist, osEnv, cfg>>

vars == <<store, archive, pipeVars, mergeVars, cfgVars, lastObserved, active>>

(***************************************************************************)
(* Bounds and input domains                                                *)
(***************************************************************************)
ConnIds == {"c1", "c2"}
IdOrder == <<"c1", "c2">>
NoConn == [ID |-> ""]
NoTotals == <<>>

HostSuffixWhitelist == <<"a.com">>

\* what the Source may report for each id: Host, RemoteDestination, Upload, Download
Reports(id) ==
    IF id = "c1"
    THEN {<<"v.a.com", "", 1, 3>>, <<"v.a.com", "", 2, 5>>, <<"", "", 1, 3>>,
          <<"", "9.9.9.9:443", 2, 5>>}
    ELSE {<<"b.org", "", 4, 1>>}

Destinations(id) == { <<x[1], x[2]>> : x \in Reports(id) }

Totals(id) == { <<x[3], x[4]>> : x \in Reports(id) }

SourceConns ==
    { [ID |-> x[1], SourceIP |-> "10.0.0.2", Host |-> x[2][1],
       RemoteDestination |-> x[2][2], Upload |-> x[2][3], Download |-> x[2][4],
       Start |-> 0, Chains |-> <<"DIRECT", "hk1">>]
      : x \in UNION { {id} \X Reports(id) : id \in ConnIds } }

Flushers == {"timed", "final"}

(***************************************************************************)
(* Sequence helpers                                                        *)
(***************************************************************************)
Range(s) == { s[i] : i \in DOMAIN s }

\* all orders of a finite set, as sequences without repetition
Orders(S) ==
    { s \in [1..Cardinality(S) -> S] : \A i, j \in DOMAIN s : i # j => s[i] # s[j] }

(***************************************************************************)
(* Snapshot Normalizer (GetClashConnections, data cleaning part)           *)
(***************************************************************************)
HasSuffix(s, suffix) ==
    /\ Len(suffix) <= Len(s)
    /\ SubSeq(s, Len(s) - Len(suffix) + 1, Len(s)) = suffix

\* the fill step left out
FillHost_Keep(conn) == conn

FillHost(conn) ==
    IF conn.Host = "" THEN [conn EXCEPT !.Host = conn.RemoteDestination] ELSE conn

\* the scan without the break: the last matching suffix wins
RECURSIVE ApplyWhitelist_LastMatch(_, _, _)
ApplyWhitelist_LastMatch(host, whitelist, i) ==
    IF i > Len(whitelist) THEN host
    ELSE LET rest == ApplyWhitelist_LastMatch(host, whitelist, i + 1)
         IN  IF rest # host \/ ~HasSuffix(host, whitelist[i]) THEN rest ELSE whitelist[i]

RECURSIVE ApplyWhitelist(_, _, _)
ApplyWhitelist(host, whitelist, i) ==
    IF i > Len(whitelist) THEN host
    ELSE IF HasSuffix(host, whitelist[i]) THEN whitelist[i]
    ELSE ApplyWhitelist(host, whitelist, i + 1)

NormalizeConn(conn, whitelist) ==
    LET filled == FillHost(conn)
    IN  [filled EXCEPT !.Host = ApplyWhitelist(filled.Host, whitelist, 1)]

NormalizeSnapshot(snapshot, whitelist) ==
    [i \in DOMAIN snapshot |-> NormalizeConn(snapshot[i], whitelist)]

\* the snapshots the Source may return: any subset of the ids, one record each
RECURSIVE SnapshotOf(_, _)
SnapshotOf(pick, i) ==
    IF i > Len(IdOrder) THEN <<>>
    ELSE IF pick[IdOrder[i]] = NoConn THEN SnapshotOf(pick, i + 1)
    ELSE <<pick[IdOrder[i]]>> \o SnapshotOf(pick, i + 1)

Snapshots ==
    { SnapshotOf(pick, 1) :
        pick \in { f \in [ConnIds -> SourceConns \cup {NoConn}] :
                     \A id \in ConnIds : f[id] # NoConn => f[id].ID = id } }

(***************************************************************************)
(* Live Cache (sync.Map)                                                   *)
(***************************************************************************)
\* connectionsCache.Store(conn.ID, conn): the entry of the key is set, the others stay
StoreOne_Exclusive(cache, conn) ==
    [k \in DOMAIN cache |-> IF k = conn.ID THEN conn ELSE NoConn]

StoreOne(cache, conn) == [cache EXCEPT ![conn.ID] = conn]

\* connectionsCache.Store(conn.ID, conn) for every element, in order
RECURSIVE StoreAll(_, _, _)
StoreAll(cache, conns, i) ==
    IF i > Len(conns) THEN cache
    ELSE StoreAll(StoreOne(cache, conns[i]), conns, i + 1)

\* connectionsCache.Range collecting the values
CacheValues(cache) == { cache[k] : k \in { id \in DOMAIN cache : cache[id] # NoConn } }

\* connectionsCache.Range deleting every key it visits
DeleteAll(cache) == [k \in DOMAIN cache |-> NoConn]

(***************************************************************************)
(* BulkUpsertConnections                                                   *)
(***************************************************************************)
NoFail == [at |-> "none", i |-> 0]

UpsertFailures(n) ==
    { [at |-> a, i |-> 0] : a \in {"none", "begin", "prepare", "commit"} }
    \cup { [at |-> "exec", i |-> k] : k \in 1..n }

LastChain(conn) ==
    IF Len(conn.Chains) > 0 THEN conn.Chains[Len(conn.Chains)] ELSE ""

\* INSERT ... ON CONFLICT(id) DO UPDATE SET upload = excluded.upload, download = excluded.download
UpsertRow_Add(rows, conn) ==
    IF \E r \in rows : r.id = conn.ID
    THEN { IF r.id = conn.ID
           THEN [r EXCEPT !.upload = r.upload + conn.Upload,
                          !.download = r.download + conn.Download]
           ELSE r : r \in rows }
    ELSE rows \cup { [id |-> conn.ID, sourceIP |-> conn.SourceIP, host |-> conn.Host,
                      upload |-> conn.Upload, download |-> conn.Download,
                      start |-> conn.Start, chain |-> LastChain(conn)] }

\* INSERT OR REPLACE: every column of the stored row is overwritten
UpsertRow_ReplaceAll(rows, conn) ==
    { r \in rows : r.id # conn.ID }
    \cup { [id |-> conn.ID, sourceIP |-> conn.SourceIP, host |-> conn.Host,
             upload |-> conn.Upload, download |-> conn.Download,
             start |-> conn.Start, chain |-> LastChain(conn)] }

UpsertRow(rows, conn) ==
    IF \E r \in rows : r.id = conn.ID
    THEN { IF r.id = conn.ID
           THEN [r EXCEPT !.upload = conn.Upload, !.download = conn.Download]
           ELSE r : r \in rows }
    ELSE rows \cup { [id |-> conn.ID, sourceIP |-> conn.SourceIP, host |-> conn.Host,
                      upload |-> conn.Upload, download |-> conn.Download,
                      start |-> conn.Start, chain |-> LastChain(conn)] }

\* the for loop over the batch: rows is the transaction's view of the table
RECURSIVE UpsertLoop_NoSkip(_, _, _, _)
UpsertLoop_NoSkip(rows, conns, i, fail) ==
    IF i > Len(conns) THEN [rows |-> rows, err |-> FALSE]
    ELSE IF fail = [at |-> "exec", i |-> i] THEN [rows |-> rows, err |-> TRUE]
    ELSE UpsertLoop_NoSkip(UpsertRow(rows, conns[i]), conns, i + 1, fail)

RECURSIVE UpsertLoop(_, _, _, _)
UpsertLoop(rows, conns, i, fail) ==
    IF i > Len(conns) THEN [rows |-> rows, err |-> FALSE]
    ELSE IF conns[i].Host = "" THEN UpsertLoop(rows, conns, i + 1, fail)
    ELSE IF fail = [at |-> "exec", i |-> i] THEN [rows |-> rows, err |-> TRUE]
    ELSE UpsertLoop(UpsertRow(rows, conns[i]), conns, i + 1, fail)

\* the deferred function: Rollback when err is set, otherwise err = tx.Commit()
UpsertDeferred_NoRollback(before, body, fail) ==
    IF body.err THEN [rows |-> body.rows, err |-> TRUE]
    ELSE IF fail.at = "commit" THEN [rows |-> body.rows, err |-> TRUE]
    ELSE [rows |-> body.rows, err |-> FALSE]

UpsertDeferred(before, body, fail) ==
    IF body.err THEN [rows |-> before, err |-> TRUE]
    ELSE IF fail.at = "commit" THEN [rows |-> before, err |-> TRUE]
    ELSE [rows |-> body.rows, err |-> FALSE]

\* an upsert that also removes the rows of the ids that are not in the batch
BulkUpsertConnections_DropAbsent(db, conns, fail) ==
    LET res == UpsertDeferred(db, UpsertLoop(db, conns, 1, fail), fail)
    IN  [rows |-> { r \in res.rows : \E i \in DOMAIN conns : conns[i].ID = r.id },
         err |-> res.err]

BulkUpsertConnections(db, conns, fail) ==
    IF fail.at = "begin" THEN [rows |-> db, err |-> TRUE]
    ELSE IF fail.at = "prepare"
         THEN UpsertDeferred(db, [rows |-> db, err |-> TRUE], fail)
         ELSE UpsertDeferred(db, UpsertLoop(db, conns, 1, fail), fail)

(***************************************************************************)
(* Configuration (LoadConfig, getValue)                                    *)
(***************************************************************************)
EnvKeys == {"CLASH_API_URL", "DB_WRITE_INTERVAL_MINUTES", "HOST_SUFFIX_WHITELIST"}

\* os.Getenv: "" when the variable is not set
Getenv(env, key) == IF env[key] = <<>> THEN "" ELSE env[key][1]

\* a .env file: key -> <<value>>, <<>> for a key the file does not define; NoFile
\* when there is no .env file
NoFile == <<"no .env">>

\* godotenv.Load(): every key of the file that the environment does not hold is
\* set; a variable that exists keeps its value; without a file nothing is set
GodotenvLoad(env, file) ==
    IF file = NoFile THEN env
    ELSE [k \in EnvKeys |-> IF env[k] = <<>> THEN file[k] ELSE env[k]]

DefaultAPIURL == "http://127.0.0.1:9090/connections"
DefaultWriteIntervalMinutes == 3

getValue(env, envKey, flagValue, defaultValue) ==
    IF flagValue # "" THEN flagValue
    ELSE IF Getenv(env, envKey) # "" THEN Getenv(env, envKey)
    ELSE defaultValue

\* strconv.Atoi for texts without sign: err for "" and for a text with a character
\* that is no digit
Digits == <<"0", "1", "2", "3", "4", "5", "6", "7", "8", "9">>

DigitOf(c) == IF \E d \in DOMAIN Digits : Digits[d] = c
              THEN (CHOOSE d \in DOMAIN Digits : Digits[d] = c) - 1 ELSE -1

RECURSIVE AtoiFrom(_, _, _)
AtoiFrom(s, i, acc) ==
    IF i > Len(s) THEN [n |-> acc, err |-> FALSE]
    ELSE IF DigitOf(SubSeq(s, i, i)) < 0 THEN [n |-> 0, err |-> TRUE]
    ELSE AtoiFrom(s, i + 1, 10 * acc + DigitOf(SubSeq(s, i, i)))

Atoi(s) == IF s = "" THEN [n |-> 0, err |-> TRUE] ELSE AtoiFrom(s, 1, 0)

\* time.Minute, in seconds
Minute == 60

\* the branch on dbWriteInterval: the flag when positive, else the variable when it
\* is a positive number, else 3
WriteIntervalMinutes(env, flagValue) ==
    IF flagValue > 0 THEN flagValue
    ELSE LET a == Atoi(Getenv(env, "DB_WRITE_INTERVAL_MINUTES"))
         IN  IF a.err \/ a.n <= 0 THEN DefaultWriteIntervalMinutes ELSE a.n

\* strings.Index(s, sep) for a separator of one character, 0 when sep is not in s
Index(s, sep) ==
    LET at == { i \in 1..Len(s) : SubSeq(s, i, i) = sep }
    IN  IF at = {} THEN 0 ELSE CHOOSE i \in at : \A j \in at : i <= j

\* strings.Split(s, sep)
RECURSIVE Split(_, _)
Split(s, sep) ==
    LET i == Index(s, sep)
    IN  IF i = 0 THEN <<s>>
        ELSE <<SubSeq(s, 1, i - 1)>> \o Split(SubSeq(s, i + 1, Len(s)), sep)

\* LoadConfig, the allow-list part
LoadWhitelist(envValue) == IF envValue # "" THEN Split(envValue, ",") ELSE <<>>

\* the flags of main: -url (a text, "" when not given), -i (a number, 0 when not given)
NoFlags == [url |-> "", i |-> 0]

\* LoadConfig after godotenv.Load: the fields of the Config; the interval in seconds
ResolveConfig(flags, env) ==
    [ClashAPIURL |-> getValue(env, "CLASH_API_URL", flags.url, DefaultAPIURL),
     DBWriteInterval |-> WriteIntervalMinutes(env, flags.i) * Minute]

StartEnv ==
    [k \in EnvKeys |-> IF k = "HOST_SUFFIX_WHITELIST" THEN <<"a.com">> ELSE <<>>]

NoConfig == [ClashAPIURL |-> "", DBWriteInterval |-> 0]

\* LoadConfig(flags...) at the start of main, with the .env file of the working
\* directory
LoadConfig(flags, file) ==
    /\ cfg = NoConfig
    /\ osEnv' = GodotenvLoad(osEnv, file)
    /\ cfg' = ResolveConfig(flags, osEnv')
    /\ hostSuffixWhitelist' = LoadWhitelist(Getenv(osEnv', "HOST_SUFFIX_WHITELIST"))
    /\ UNCHANGED <<store, archive, pipeVars, mergeVars, lastObserved, active>>

(***************************************************************************)
(* Poller goroutine                                                        *)
(***************************************************************************)
\* how one HTTP exchange with the Source ends: "request" client.Do fails,
\* "status" the status is not 200, "body" the body cannot be read, "json" the body
\* does not unmarshal, "ok" none of these; snapshot is what the body describes
FetchFailures == {"request", "status", "body", "json"}

\* the bodies that come with a status other than 200: nothing, or the record of c2
ErrorBodies == { b \in Snapshots : \A i \in DOMAIN b : b[i].ID = "c2" }

Responses ==
    { [kind |-> "ok", snapshot |-> b] : b \in Snapshots }
    \cup { [kind |-> "status", snapshot |-> b] : b \in ErrorBodies }
    \cup { [kind |-> k, snapshot |-> <<>>] : k \in FetchFailures \ {"status"} }

\* GetClashConnections: nil and an error on every failure, otherwise the cleaned snapshot
GetClashConnections_NoStatusCheck(resp, whitelist) ==
    IF resp.kind \in FetchFailures \ {"status"}
    THEN [connections |-> <<>>, err |-> TRUE]
    ELSE [connections |-> NormalizeSnapshot(resp.snapshot, whitelist), err |-> FALSE]

GetClashConnections(resp, whitelist) ==
    IF resp.kind \in FetchFailures
    THEN [connections |-> <<>>, err |-> TRUE]
    ELSE [connections |-> NormalizeSnapshot(resp.snapshot, whitelist), err |-> FALSE]

\* the body of the poller's loop for one tick: on an error log and continue, otherwise
\* for _, conn := range connections.Connections { connectionsCache.Store(conn.ID, conn) }
\* (a tick whose Stores interleave with another goroutine leaves the cache as two
\* ticks with the two parts of the snapshot do); the history variable lastObserved
\* is set by the poll action of each specification
PollTick(resp) ==
    /\ mainPc # "exited"
    /\ UNCHANGED <<store, archive, flPc, connsToSave, saveErr, mainPc>>
    /\ UNCHANGED <<mergeVars, cachedAtSignal, cfgVars>>
    /\ LET res == GetClashConnections(resp, hostSuffixWhitelist)
       IN  /\ connectionsCache' = IF res.err THEN connectionsCache
                                  ELSE StoreAll(connectionsCache, res.connections, 1)
           /\ pollErr' = res.err

FetchedResponses == { resp \in Responses : resp.kind = "ok" }

FailedResponses == { resp \in Responses : resp.kind \in FetchFailures }

\* one tick with a snapshot fetched
Poll == \E resp \in FetchedResponses : PollTick(resp) /\ UNCHANGED <<lastObserved, active>>

\* one tick with a failed fetch
PollFetchFail == \E resp \in FailedResponses : PollTick(resp) /\ UNCHANGED <<lastObserved, active>>

(***************************************************************************)
(* writeCacheToDB, called by the Flusher goroutine ("timed") and by main   *)
(* after the exit signal ("final")                                         *)
(***************************************************************************)
MayStart(p) == IF p = "timed" THEN mainPc # "exited" ELSE mainPc = "signalled"

\* where a call of writeCacheToDB goes after BulkUpsertConnections returned err
AfterUpsert_AlwaysClear(err) == "saved"

AfterUpsert(err) == IF err THEN "idle" ELSE "saved"

\* first Range: collect the values; return when there is none
FlushCollect(p) ==
    /\ mainPc # "exited"
    /\ flPc[p] = "idle"
    /\ MayStart(p)
    /\ mainPc' = IF p = "final" THEN "flushing" ELSE mainPc
    /\ connsToSave' = [connsToSave EXCEPT ![p] = CacheValues(connectionsCache)]
    /\ flPc' = [flPc EXCEPT ![p] = IF CacheValues(connectionsCache) = {} THEN "idle"
                                   ELSE "collected"]
    /\ saveErr' = [saveErr EXCEPT ![p] = FALSE]
    /\ UNCHANGED <<connectionsCache, store, archive, pollErr>>
    /\ UNCHANGED <<mergeVars, cachedAtSignal, cfgVars, lastObserved, active>>

\* BulkUpsertConnections(db, connsToSave), then the branch on err
FlushSave(p) ==
    /\ mainPc # "exited"
    /\ flPc[p] = "collected"
    /\ \E order \in Orders(connsToSave[p]) :
       \E fail \in UpsertFailures(Len(order)) :
         LET res == BulkUpsertConnections(store, order, fail)
         IN  /\ store' = res.rows
             /\ saveErr' = [saveErr EXCEPT ![p] = res.err]
             /\ flPc' = [flPc EXCEPT ![p] = AfterUpsert(res.err)]
    /\ connsToSave' = [connsToSave EXCEPT ![p] = IF flPc'[p] = "idle" THEN {} ELSE @]
    /\ UNCHANGED <<connectionsCache, archive, pollErr, mainPc>>
    /\ UNCHANGED <<mergeVars, cachedAtSignal, cfgVars, lastObserved, active>>

\* second Range: delete every key of the cache
FlushClear(p) ==
    /\ mainPc # "exited"
    /\ flPc[p] = "saved"
    /\ connectionsCache' = DeleteAll(connectionsCache)
    /\ flPc' = [flPc EXCEPT ![p] = "idle"]
    /\ connsToSave' = [connsToSave EXCEPT ![p] = {}]
    /\ UNCHANGED <<store, archive, pollErr, saveErr, mainPc>>
    /\ UNCHANGED <<mergeVars, cachedAtSignal, cfgVars, lastObserved, active>>

(***************************************************************************)
(* main: graceful shutdown                                                 *)
(***************************************************************************)
\* the (id, upload, download) of the cached records that have a host
Persistable(cache) ==
    { [id |-> c.ID, upload |-> c.Upload, download |-> c.Download] :
        c \in { x \in CacheValues(cache) : x.Host # "" } }

\* <-quitChan
Signal ==
    /\ mainPc = "waiting"
    /\ mainPc' = "signalled"
    /\ cachedAtSignal' = Persistable(connectionsCache)
    /\ UNCHANGED <<connectionsCache, store, archive, pollErr,
                   flPc, connsToSave, saveErr>>
    /\ UNCHANGED <<mergeVars, cfgVars, lastObserved, active>>

\* writeCacheToDB(db) returned: main returns and the process ends
Exit ==
    /\ mainPc = "flushing"
    /\ flPc["final"] = "idle"
    /\ mainPc' = "exited"
    /\ UNCHANGED <<connectionsCache, store, archive, pollErr,
                   flPc, connsToSave, saveErr>>
    /\ UNCHANGED <<mergeVars, cachedAtSignal, cfgVars, lastObserved, active>>

(***************************************************************************)
(* Merge/Archive Engine: mergeConnectionsHandler, mergeAndArchiveConnections *)
(***************************************************************************)
Handlers == {"h1", "h2"}
MaxMerges == 2

FormatWidth == 19
DaysToUnixEpoch == 719162
SecondsPerDay == 86400

\* the (startDate, endDate) pairs and the intervals a request may carry
Ranges == {<<0, 700>>, <<0, 120>>, <<700, 0>>}
Intervals == {0, 2, 10}
MergeRequests ==
    { [StartDate |-> r[1], EndDate |-> r[2], Interval |-> w] : r \in Ranges, w \in Intervals }
NoRequest == [StartDate |-> 0, EndDate |-> 0, Interval |-> 0]

\* Time.Truncate(d): t rounded down to a multiple of d since the zero time (year 1),
\* t itself when d <= 0; t in Unix seconds, d in seconds
ZeroTimeOffset(d) == ((DaysToUnixEpoch % d) * (SecondsPerDay % d)) % d

TruncateTime(t, d) ==
    IF d <= 0 THEN t ELSE t - ((t + ZeroTimeOffset(d)) % d)

\* Time.Format("2006-01-02 15:04:05"): a text of fixed width, one per second
\* (the zone is a fixed offset); here the seconds in decimal, zero-padded
RECURSIVE PadLeft(_, _)
PadLeft(str, width) == IF Len(str) >= width THEN str ELSE PadLeft("0" \o str, width)

FormatTime(t) == PadLeft(ToString(t), FormatWidth)

\* fmt.Sprintf("%s-%s", conn.Metadata.Host, timeSlot)
GroupKey(conn, interval) ==
    conn.Host \o "-" \o FormatTime(TruncateTime(conn.Start, interval * Minute))

\* rows.Scan into a Connection
ToConnection(row) ==
    [ID |-> row.id, SourceIP |-> row.sourceIP, Host |-> row.host, RemoteDestination |-> "",
     Upload |-> row.upload, Download |-> row.download, Start |-> row.start,
     Chains |-> <<row.chain>>]

\* the comparison with both ends excluded
Selected_Exclusive(db, req) ==
    { r \in db : r.start > req.StartDate /\ r.start < req.EndDate }

\* WHERE start >= ? AND start <= ?
Selected(db, req) == { r \in db : r.start >= req.StartDate /\ r.start <= req.EndDate }

\* existing.Upload += conn.Upload; existing.Download += conn.Download
Accumulate_KeepFirst(existing, conn) == existing

Accumulate_UploadOnly(existing, conn) ==
    [existing EXCEPT !.Upload = @ + conn.Upload]

Accumulate(existing, conn) ==
    [existing EXCEPT !.Upload = @ + conn.Upload, !.Download = @ + conn.Download]

\* the grouping loop; merged is the map as a sequence of (key, conn) in first-seen order
RECURSIVE GroupLoop(_, _, _, _)
GroupLoop(merged, conns, i, interval) ==
    IF i > Len(conns) THEN merged
    ELSE LET key == GroupKey(conns[i], interval)
         IN  IF \E j \in DOMAIN merged : merged[j].key = key
             THEN GroupLoop([j \in DOMAIN merged |->
                               IF merged[j].key = key
                               THEN [key |-> key, conn |-> Accumulate(merged[j].conn, conns[i])]
                               ELSE merged[j]],
                            conns, i + 1, interval)
             ELSE GroupLoop(Append(merged, [key |-> key, conn |-> conns[i]]),
                            conns, i + 1, interval)

FirstChain(conn) == IF Len(conn.Chains) > 0 THEN conn.Chains[1] ELSE ""

\* the copy with the time of archival in the place of the record's start
ArchiveRow_StartAsArchived(conn, now) ==
    [id |-> conn.ID, sourceIP |-> conn.SourceIP, host |-> conn.Host, upload |-> conn.Upload,
     download |-> conn.Download, start |-> now, chain |-> FirstChain(conn),
     archived_at |-> now]

ArchiveRow(conn, now) ==
    [id |-> conn.ID, sourceIP |-> conn.SourceIP, host |-> conn.Host, upload |-> conn.Upload,
     download |-> conn.Download, start |-> conn.Start, chain |-> FirstChain(conn),
     archived_at |-> now]

\* the summary kept under the id of the group's first record
MergedRow_KeepId(newID, conn) ==
    [id |-> conn.ID, sourceIP |-> conn.SourceIP, host |-> conn.Host, upload |-> conn.Upload,
     download |-> conn.Download, start |-> conn.Start, chain |-> FirstChain(conn)]

\* the summary with a start one hour after the start of the group's first record
MergedRow_ShiftedStart(newID, conn) ==
    [id |-> newID, sourceIP |-> conn.SourceIP, host |-> conn.Host, upload |-> conn.Upload,
     download |-> conn.Download, start |-> conn.Start + 3600, chain |-> FirstChain(conn)]

MergedRow_NoHost(newID, conn) ==
    [id |-> newID, sourceIP |-> conn.SourceIP, host |-> "", upload |-> conn.Upload,
     download |-> conn.Download, start |-> conn.Start, chain |-> FirstChain(conn)]

MergedRow(newID, conn) ==
    [id |-> newID, sourceIP |-> conn.SourceIP, host |-> conn.Host, upload |-> conn.Upload,
     download |-> conn.Download, start |-> conn.Start, chain |-> FirstChain(conn)]

\* DELETE FROM connections WHERE id = ?
DeleteRow_Keep(rows, id) == rows

DeleteRow(rows, id) == { r \in rows : r.id # id }

\* uuid.New().String(): the n-th id handed out; it differs from every id stored
NewUuid(n) == "u" \o ToString(n)

\* time.Now().Unix() of the n-th merge
Now(n) == 1000 + n

MergeFailures(n, g) ==
    { [at |-> a, i |-> 0] : a \in {"none", "beginTx", "beginArchiveTx", "prepareArchive",
                                   "prepareDelete", "prepareInsert", "commit"} }
    \cup { [at |-> a, i |-> k] : a \in {"archiveExec", "deleteExec"}, k \in 1..n }
    \cup { [at |-> "insertExec", i |-> k] : k \in 1..g }

\* what a merge can get to while another archive transaction holds the write lock
BeforeArchiveWrite(fail) ==
    \/ fail.at \in {"beginTx", "beginArchiveTx", "prepareArchive", "prepareDelete"}
    \/ fail = [at |-> "archiveExec", i |-> 1]

\* for _, conn := range connectionsToMerge: archive, then delete
RECURSIVE ArchiveDeleteLoop(_, _, _, _, _, _)
ArchiveDeleteLoop(rows, archived, conns, i, now, fail) ==
    IF i > Len(conns) THEN [rows |-> rows, archived |-> archived, err |-> FALSE]
    ELSE IF fail = [at |-> "archiveExec", i |-> i]
         THEN [rows |-> rows, archived |-> archived, err |-> TRUE]
    ELSE IF fail = [at |-> "deleteExec", i |-> i]
         THEN [rows |-> rows, archived |-> Append(archived, ArchiveRow(conns[i], now)),
               err |-> TRUE]
    ELSE ArchiveDeleteLoop(DeleteRow(rows, conns[i].ID),
                           Append(archived, ArchiveRow(conns[i], now)),
                           conns, i + 1, now, fail)

\* for _, conn := range mergedConnections: insert under a new id
RECURSIVE InsertLoop(_, _, _, _, _)
InsertLoop(rows, merged, j, uuids, fail) ==
    IF j > Len(merged) THEN [rows |-> rows, err |-> FALSE]
    ELSE IF fail = [at |-> "insertExec", i |-> j] THEN [rows |-> rows, err |-> TRUE]
    ELSE InsertLoop(rows \cup {MergedRow(NewUuid(uuids + j), merged[j].conn)},
                    merged, j + 1, uuids, fail)

\* the statements between the two Begin and the return: the transactions' views
MergeStatements(db, conns, merged, now, uuids, fail) ==
    IF fail.at \in {"prepareArchive", "prepareDelete"}
    THEN [rows |-> db, archived |-> <<>>, err |-> TRUE]
    ELSE LET a == ArchiveDeleteLoop(db, <<>>, conns, 1, now, fail)
         IN  IF a.err THEN a
             ELSE IF fail.at = "prepareInsert" THEN [a EXCEPT !.err = TRUE]
             ELSE LET b == InsertLoop(a.rows, merged, 1, uuids, fail)
                  IN  [rows |-> b.rows, archived |-> a.archived, err |-> b.err]

\* the deferred function up to the Primary commit: both Rollback when err is set;
\* otherwise err = tx.Commit(), and archiveTx.Commit() follows only when err == nil
MergeDeferred_CommitArchiveAnyway(db, body, fail) ==
    IF body.err
    THEN [rows |-> db, tx |-> "rolledback", archiveTx |-> "rolledback", err |-> TRUE,
          commitArchive |-> FALSE]
    ELSE IF fail.at = "commit"
    THEN [rows |-> db, tx |-> "rolledback", archiveTx |-> "open", err |-> TRUE,
          commitArchive |-> TRUE]
    ELSE [rows |-> body.rows, tx |-> "committed", archiveTx |-> "open", err |-> FALSE,
          commitArchive |-> TRUE]

MergeDeferred(db, body, fail) ==
    IF body.err
    THEN [rows |-> db, tx |-> "rolledback", archiveTx |-> "rolledback", err |-> TRUE,
          commitArchive |-> FALSE]
    ELSE IF fail.at = "commit"
    THEN [rows |-> db, tx |-> "rolledback", archiveTx |-> "open", err |-> TRUE,
          commitArchive |-> FALSE]
    ELSE [rows |-> body.rows, tx |-> "committed", archiveTx |-> "open", err |-> FALSE,
          commitArchive |-> TRUE]

\* the error mergeAndArchiveConnections hands to its caller: the operand of the
\* return statement (the result is unnamed: what the deferred function assigns to err
\* afterwards stays local)
MergeResult(returned, deferredErr) == returned

\* the handler's status for the error it got
StatusOf(err) == IF err THEN "500" ELSE "200"

\* the early return left out
NothingToMerge_Never(conns) == FALSE

\* if len(connectionsToMerge) == 0 { return nil }
NothingToMerge(conns) == Len(conns) = 0

\* a request arrives: decode, query, scan, group
MergeRequest(h) ==
    /\ mPc[h] \in {"idle", "done"}
    /\ mergeCount < MaxMerges
    /\ mergeCount' = mergeCount + 1
    /\ tx' = [tx EXCEPT ![h] = "none"]
    /\ archiveTx' = [archiveTx EXCEPT ![h] = "none"]
    /\ archivePending' = [archivePending EXCEPT ![h] = <<>>]
    /\ \/ \* the body does not decode
          /\ mReq' = [mReq EXCEPT ![h] = NoRequest]
          /\ connectionsToMerge' = [connectionsToMerge EXCEPT ![h] = <<>>]
          /\ mergedConnections' = [mergedConnections EXCEPT ![h] = <<>>]
          /\ mErr' = [mErr EXCEPT ![h] = FALSE]
          /\ response' = [response EXCEPT ![h] = "400"]
          /\ mPc' = [mPc EXCEPT ![h] = "done"]
       \/ \* db.Query fails
          /\ \E req \in MergeRequests : mReq' = [mReq EXCEPT ![h] = req]
          /\ connectionsToMerge' = [connectionsToMerge EXCEPT ![h] = <<>>]
          /\ mergedConnections' = [mergedConnections EXCEPT ![h] = <<>>]
          /\ mErr' = [mErr EXCEPT ![h] = TRUE]
          /\ response' = [response EXCEPT ![h] = StatusOf(TRUE)]
          /\ mPc' = [mPc EXCEPT ![h] = "done"]
       \/ \* the rows of the range, in the order the query yields them
          \E req \in MergeRequests :
          \E order \in Orders(Selected(store, req)) :
            LET conns == [i \in DOMAIN order |-> ToConnection(order[i])]
            IN  /\ mReq' = [mReq EXCEPT ![h] = req]
                /\ connectionsToMerge' = [connectionsToMerge EXCEPT ![h] = conns]
                /\ mErr' = [mErr EXCEPT ![h] = FALSE]
                /\ IF NothingToMerge(conns)
                   THEN /\ mergedConnections' = [mergedConnections EXCEPT ![h] = <<>>]
                        /\ response' = [response EXCEPT ![h] = StatusOf(FALSE)]
                        /\ mPc' = [mPc EXCEPT ![h] = "done"]
                   ELSE /\ mergedConnections' =
                              [mergedConnections EXCEPT
                                 ![h] = GroupLoop(<<>>, conns, 1, req.Interval)]
                        /\ response' = [response EXCEPT ![h] = "none"]
                        /\ mPc' = [mPc EXCEPT ![h] = "queried"]
    /\ UNCHANGED <<store, archive, uuidCount, archiveLocked>>
    /\ UNCHANGED <<pipeVars, cfgVars, lastObserved, active>>

\* another transaction holds the write lock of the archive database: one left open
\* for good, or the one of a handler that has not reached archiveTx.Commit() yet
ArchiveBusy(h) ==
    archiveLocked \/ \E g \in Handlers \ {h} : mPc[g] = "archiveCommit"

\* the two Begin, the statements, the return and the deferred function up to the
\* Primary commit
MergeTx(h) ==
    /\ mPc[h] = "queried"
    /\ \E fail \in MergeFailures(Len(connectionsToMerge[h]), Len(mergedConnections[h])) :
         /\ ArchiveBusy(h) => BeforeArchiveWrite(fail)
         /\ IF fail.at \in {"beginTx", "beginArchiveTx"}
            THEN /\ tx' = [tx EXCEPT ![h] = IF fail.at = "beginTx" THEN "none"
                                           ELSE "rolledback"]
                 /\ mErr' = [mErr EXCEPT ![h] = TRUE]
                 /\ response' = [response EXCEPT ![h] = StatusOf(MergeResult(TRUE, TRUE))]
                 /\ mPc' = [mPc EXCEPT ![h] = "done"]
                 /\ UNCHANGED <<store, archiveTx, archivePending, uuidCount, archiveLocked>>
            ELSE LET body == MergeStatements(store, connectionsToMerge[h],
                                             mergedConnections[h], Now(mergeCount),
                                             uuidCount, fail)
                     d == MergeDeferred(store, body, fail)
                 IN  /\ store' = d.rows
                     /\ tx' = [tx EXCEPT ![h] = d.tx]
                     /\ archiveTx' = [archiveTx EXCEPT ![h] = d.archiveTx]
                     /\ archivePending' =
                            [archivePending EXCEPT
                               ![h] = IF d.archiveTx = "open" THEN body.archived ELSE <<>>]
                     /\ mErr' = [mErr EXCEPT ![h] = d.err]
                     /\ uuidCount' = IF d.tx = "committed"
                                     THEN uuidCount + Len(mergedConnections[h])
                                     ELSE uuidCount
                     /\ archiveLocked' =
                            (archiveLocked \/ (d.archiveTx = "open" /\ ~d.commitArchive))
                     /\ IF d.commitArchive
                        THEN /\ mPc' = [mPc EXCEPT ![h] = "archiveCommit"]
                             /\ UNCHANGED response
                        ELSE /\ mPc' = [mPc EXCEPT ![h] = "done"]
                             /\ response' =
                                  [response EXCEPT
                                     ![h] = StatusOf(MergeResult(body.err, d.err))]
    /\ UNCHANGED <<archive, mReq, connectionsToMerge, mergedConnections, mergeCount>>
    /\ UNCHANGED <<pipeVars, cfgVars, lastObserved, active>>

\* as if id were a key of connections_archive and the INSERT replaced on conflict
CommitInserts_ReplaceById(rows, pending) ==
    SelectSeq(rows, LAMBDA r : \A k \in DOMAIN pending : pending[k].id # r.id) \o pending

\* the rows of connections_archive once the INSERTs of a transaction are committed:
\* the table has no key, every INSERT adds a row
CommitInserts(rows, pending) == rows \o pending

\* archiveTx.Commit(), its error dropped; the function returns, the handler answers
MergeArchiveCommit(h) ==
    /\ mPc[h] = "archiveCommit"
    /\ \E ok \in BOOLEAN :
         /\ archive' = IF ok THEN CommitInserts(archive, archivePending[h]) ELSE archive
         /\ archiveTx' = [archiveTx EXCEPT ![h] = IF ok THEN "committed" ELSE "rolledback"]
    /\ archivePending' = [archivePending EXCEPT ![h] = <<>>]
    /\ response' = [response EXCEPT ![h] = StatusOf(MergeResult(FALSE, mErr[h]))]
    /\ mPc' = [mPc EXCEPT ![h] = "done"]
    /\ UNCHANGED <<store, mReq, connectionsToMerge, mergedConnections, tx, mErr,
                   uuidCount, mergeCount, archiveLocked>>
    /\ UNCHANGED <<pipeVars, cfgVars, lastObserved, active>>

MergeInit ==
    /\ mPc = [h \in Handlers |-> "idle"]
    /\ mReq = [h \in Handlers |-> NoRequest]
    /\ connectionsToMerge = [h \in Handlers |-> <<>>]
    /\ mergedConnections = [h \in Handlers |-> <<>>]
    /\ tx = [h \in Handlers |-> "none"]
    /\ archiveTx = [h \in Handlers |-> "none"]
    /\ archivePending = [h \in Handlers |-> <<>>]
    /\ mErr = [h \in Handlers |-> FALSE]
    /\ response = [h \in Handlers |-> "none"]
    /\ uuidCount = 0
    /\ mergeCount = 0
    /\ archiveLocked = FALSE

(***************************************************************************)
(* Specification of the ingestion pipeline                                 *)
(***************************************************************************)
Init ==
    /\ connectionsCache = [id \in ConnIds |-> NoConn]
    /\ store = {}
    /\ archive = <<>>
    /\ pollErr = FALSE
    /\ flPc = [p \in Flushers |-> "idle"]
    /\ connsToSave = [p \in Flushers |-> {}]
    /\ saveErr = [p \in Flushers |-> FALSE]
    /\ mainPc = "waiting"
    /\ cachedAtSignal = {}
    /\ hostSuffixWhitelist = HostSuffixWhitelist
    /\ lastObserved = [id \in ConnIds |-> NoTotals]
    /\ active = ConnIds
    /\ osEnv = StartEnv
    /\ cfg = ResolveConfig(NoFlags, StartEnv)
    /\ MergeInit

Next ==
    \/ Poll
    \/ PollFetchFail
    \/ \E p \in Flushers : FlushCollect(p)
    \/ \E p \in Flushers : FlushSave(p)
    \/ \E p \in Flushers : FlushClear(p)
    \/ Signal
    \/ Exit

Spec == Init /\ [][Next]_vars

(***************************************************************************)
(* Specification of the merge/archive engine: the Primary Store holds rows *)
(* of earlier flushes, the Live Cache may hold a newer observation, the    *)
(* Flusher runs beside the merge handler                                   *)
(***************************************************************************)
SeedConn(id, host, start, up, down) ==
    [ID |-> id, SourceIP |-> "10.0.0.2", Host |-> host, RemoteDestination |-> "",
     Upload |-> up, Download |-> down, Start |-> start, Chains |-> <<"DIRECT", "hk1">>]

\* connections flushed earlier
SeedConns ==
    { SeedConn("c1", "a.com", 0, 1, 3), SeedConn("c3", "a.com", 120, 2, 5),
      SeedConn("c2", "b.org", 600, 4, 1) }

SeedStores ==
    { BulkUpsertConnections({}, order, NoFail).rows :
        order \in UNION { Orders(S) : S \in SUBSET SeedConns } }

\* observations not flushed yet
SeedCaches ==
    { [id \in ConnIds |-> NoConn],
      [id \in ConnIds |-> IF id = "c1" THEN SeedConn("c1", "a.com", 0, 2, 5) ELSE NoConn],
      [id \in ConnIds |-> IF id = "c1" THEN SeedConn("c1", "a.com", 0, 2, 5)
                          ELSE SeedConn("c2", "", 600, 4, 1)] }

InitMerge ==
    /\ connectionsCache \in SeedCaches
    /\ store \in SeedStores
    /\ archive = <<>>
    /\ pollErr = FALSE
    /\ flPc = [p \in Flushers |-> "idle"]
    /\ connsToSave = [p \in Flushers |-> {}]
    /\ saveErr = [p \in Flushers |-> FALSE]
    /\ mainPc = "waiting"
    /\ cachedAtSignal = {}
    /\ hostSuffixWhitelist = HostSuffixWhitelist
    /\ lastObserved = [id \in ConnIds |-> NoTotals]
    /\ active = ConnIds
    /\ osEnv = StartEnv
    /\ cfg = ResolveConfig(NoFlags, StartEnv)
    /\ MergeInit

\* one client that waits for each answer before its next request: the server runs
\* one handler goroutine at a time
OneClient == {"h1"}

NextMerge ==
    \/ \E h \in OneClient : MergeRequest(h)
    \/ \E h \in OneClient : MergeTx(h)
    \/ \E h \in OneClient : MergeArchiveCommit(h)
    \/ FlushCollect("timed")
    \/ FlushSave("timed")
    \/ FlushClear("timed")

SpecMerge == InitMerge /\ [][NextMerge]_vars

(***************************************************************************)
(* Specification of concurrent merge requests: net/http serves each        *)
(* request in a goroutine of its own and the handler takes no lock         *)
(***************************************************************************)
NextConcurrentMerge ==
    \/ \E h \in Handlers : MergeRequest(h)
    \/ \E h \in Handlers : MergeTx(h)
    \/ \E h \in Handlers : MergeArchiveCommit(h)

SpecConcurrentMerge == InitMerge /\ [][NextConcurrentMerge]_vars

(***************************************************************************)
(* Specification of a repeated merge: one client sends the same request    *)
(* again after each answer, and nothing else writes to the stores          *)
(***************************************************************************)
\* a request of the client; after the first, its body is the one sent before
RepeatRequest(h) ==
    /\ MergeRequest(h)
    /\ mergeCount > 0 => mReq'[h] = mReq[h]

NextRemerge ==
    \/ \E h \in OneClient : RepeatRequest(h)
    \/ \E h \in OneClient : MergeTx(h)
    \/ \E h \in OneClient : MergeArchiveCommit(h)

SpecRemerge == InitMerge /\ [][NextRemerge]_vars

(***************************************************************************)
(* Specification of repeated upserts of one id: the Source reports the     *)
(* connection with varying source address, host, start and chain, the      *)
(* Flusher persists what the Poller stored                                 *)
(***************************************************************************)
VariantConns ==
    { [ID |-> "c1", SourceIP |-> ip, Host |-> h, RemoteDestination |-> "",
       Upload |-> t[1], Download |-> t[2], Start |-> st, Chains |-> ch] :
        ip \in {"10.0.0.2", "10.0.0.9"}, h \in {"a.com", "z.net"},
        t \in {<<1, 3>>, <<2, 5>>}, st \in {0, 60},
        ch \in {<<"DIRECT", "hk1">>, <<"jp2">>} }

\* one tick whose snapshot is one of these records
PollVariant ==
    \E conn \in VariantConns :
        PollTick([kind |-> "ok", snapshot |-> <<conn>>]) /\ UNCHANGED <<lastObserved, active>>

NextUpsert ==
    \/ PollVariant
    \/ FlushCollect("timed")
    \/ FlushSave("timed")
    \/ FlushClear("timed")

SpecUpsert == Init /\ [][NextUpsert]_vars

(***************************************************************************)
(* Specification of the Normalizer: LoadConfig reads the allow-list from   *)
(* HOST_SUFFIX_WHITELIST, then every tick of the Poller normalizes one     *)
(* record                                                                  *)
(***************************************************************************)
\* values of HOST_SUFFIX_WHITELIST, "" when the variable is not set
WhitelistEnvValues == {"", "a.com", "a.com,v.a.com", "v.a.com,a.com", ":443,"}

NormalizerInputs ==
    { [ID |-> id, SourceIP |-> "10.0.0.2", Host |-> h, RemoteDestination |-> d,
       Upload |-> 1, Download |-> 3, Start |-> 0, Chains |-> <<"DIRECT", "hk1">>] :
        id \in ConnIds, h \in {"", "x.v.a.com", "v.a.com", "a.com", "b.org"},
        d \in {"", "9.9.9.9:443"} }

InitNormalize ==
    /\ connectionsCache = [id \in ConnIds |-> NoConn]
    /\ store = {}
    /\ archive = <<>>
    /\ pollErr = FALSE
    /\ flPc = [p \in Flushers |-> "idle"]
    /\ connsToSave = [p \in Flushers |-> {}]
    /\ saveErr = [p \in Flushers |-> FALSE]
    /\ mainPc = "waiting"
    /\ cachedAtSignal = {}
    /\ hostSuffixWhitelist \in { LoadWhitelist(v) : v \in WhitelistEnvValues }
    /\ lastObserved = [id \in ConnIds |-> NoTotals]
    /\ active = ConnIds
    /\ osEnv = StartEnv
    /\ cfg = ResolveConfig(NoFlags, StartEnv)
    /\ MergeInit

\* one tick whose snapshot is one of these records
PollNormalize ==
    \E conn \in NormalizerInputs :
        PollTick([kind |-> "ok", snapshot |-> <<conn>>]) /\ UNCHANGED <<lastObserved, active>>

NextNormalize == PollNormalize

SpecNormalize == InitNormalize /\ [][NextNormalize]_vars

(***************************************************************************)
(* Specification of connections that close: the Source reports each id     *)
(* with a host and cumulative totals that never decrease, and may leave    *)
(* an id out of any snapshot; the Poller and the timed Flusher run as in   *)
(* Spec, and lastObserved records what the Poller stored last for each id  *)
(***************************************************************************)
ReportedSnapshots == { b \in Snapshots : \A i \in DOMAIN b : b[i].Host # "" }

\* the counters of a connection are cumulative
Cumulative(seen, snapshot) ==
    \A i \in DOMAIN snapshot :
        seen[snapshot[i].ID] # NoTotals => snapshot[i].Upload >= seen[snapshot[i].ID][1]

Observe(seen, snapshot) ==
    [id \in ConnIds |->
        IF \E i \in DOMAIN snapshot : snapshot[i].ID = id
        THEN LET i == CHOOSE k \in DOMAIN snapshot : snapshot[k].ID = id
             IN  <<snapshot[i].Upload, snapshot[i].Download>>
        ELSE seen[id]]

PollObserved ==
    \E b \in ReportedSnapshots :
        /\ Cumulative(lastObserved, b)
        /\ PollTick([kind |-> "ok", snapshot |-> b])
        /\ lastObserved' = Observe(lastObserved, b)
        /\ UNCHANGED active

NextTerminal ==
    \/ PollObserved
    \/ FlushCollect("timed")
    \/ FlushSave("timed")
    \/ FlushClear("timed")

SpecTerminal == Init /\ [][NextTerminal]_vars

(***************************************************************************)
(* Specification of the pipeline with cumulative counters up to the exit:  *)
(* the Poller of SpecTerminal, the timed Flusher, and the signal with the  *)
(* final flush that main runs while the two goroutines go on              *)
(***************************************************************************)
NextShutdown ==
    \/ PollObserved
    \/ \E p \in Flushers : FlushCollect(p)
    \/ \E p \in Flushers : FlushSave(p)
    \/ \E p \in Flushers : FlushClear(p)
    \/ Signal
    \/ Exit

SpecShutdown == Init /\ [][NextShutdown]_vars

(***************************************************************************)
(* Specification of the Source closing connections: the connection list    *)
(* of the Clash API loses ids for good, every tick fetches the records of  *)
(* the ids in the list, and the timed Flusher runs; no merge is requested. *)
(* The tickers make every tick and every flush cycle happen.               *)
(***************************************************************************)
\* a connection closes: Clash drops it from its list (an id is not used again)
SourceClose(id) ==
    /\ id \in active
    /\ active' = active \ {id}
    /\ UNCHANGED <<store, archive, pipeVars, mergeVars, cfgVars, lastObserved>>

\* one tick: the snapshot holds one record for each id in the list
PollActive ==
    \E b \in ReportedSnapshots :
        /\ { b[i].ID : i \in DOMAIN b } = active
        /\ Cumulative(lastObserved, b)
        /\ PollTick([kind |-> "ok", snapshot |-> b])
        /\ lastObserved' = Observe(lastObserved, b)
        /\ UNCHANGED active

NextClose ==
    \/ \E id \in ConnIds : SourceClose(id)
    \/ PollActive
    \/ FlushCollect("timed")
    \/ FlushSave("timed")
    \/ FlushClear("timed")

SpecClose ==
    /\ Init
    /\ [][NextClose]_vars
    /\ WF_vars(PollActive)
    /\ WF_vars(FlushCollect("timed"))
    /\ WF_vars(FlushSave("timed"))
    /\ WF_vars(FlushClear("timed"))

(***************************************************************************)
(* Specification of the start of main: the process is started with some    *)
(* environment, some flags and some .env file, and LoadConfig runs once    *)
(***************************************************************************)
ConfigEnvs ==
    { [k \in EnvKeys |-> IF k = "CLASH_API_URL" THEN u
                         ELSE IF k = "DB_WRITE_INTERVAL_MINUTES" THEN n ELSE w] :
        u \in {<<>>, <<"">>, <<"http://e">>}, n \in {<<>>, <<"5">>, <<"abc">>},
        w \in {<<>>, <<"a.com">>} }

DotEnvFiles ==
    {NoFile} \cup
    { [k \in EnvKeys |-> IF k = "CLASH_API_URL" THEN u
                         ELSE IF k = "DB_WRITE_INTERVAL_MINUTES" THEN n ELSE w] :
        u \in {<<>>, <<"http://d">>}, n \in {<<>>, <<"9">>, <<"0">>},
        w \in {<<>>, <<"b.org,">>} }

FlagSets == { [url |-> u, i |-> n] : u \in {"", "http://f"}, n \in {0, 7} }

InitConfig ==
    /\ connectionsCache = [id \in ConnIds |-> NoConn]
    /\ store = {}
    /\ archive = <<>>
    /\ pollErr = FALSE
    /\ flPc = [p \in Flushers |-> "idle"]
    /\ connsToSave = [p \in Flushers |-> {}]
    /\ saveErr = [p \in Flushers |-> FALSE]
    /\ mainPc = "waiting"
    /\ cachedAtSignal = {}
    /\ hostSuffixWhitelist = <<>>
    /\ lastObserved = [id \in ConnIds |-> NoTotals]
    /\ active = ConnIds
    /\ osEnv \in ConfigEnvs
    /\ cfg = NoConfig
    /\ MergeInit

NextConfig == \E flags \in FlagSets : \E file \in DotEnvFiles : LoadConfig(flags, file)

SpecConfig == InitConfig /\ [][NextConfig]_vars

(***************************************************************************)
(* Properties of the ingestion pipeline (checked under Spec)               *)
(***************************************************************************)
\* the step in which p's call of BulkUpsertConnections returns
SaveStep(p) == flPc[p] = "collected" /\ flPc'[p] # "collected"

\* the step in which p's second Range deletes the keys of the cache
ClearStep(p) == flPc[p] = "saved" /\ flPc'[p] = "idle"

Cached == { id \in ConnIds : connectionsCache[id] # NoConn }

\* C1 (cache drain exclusivity): a record put into the Live Cache is never lost by a
\* flush cycle: whatever the cycle's clear removes from the cache was part of the batch
\* the cycle handed to BulkUpsertConnections; a put that lands between the collect and
\* the clear survives the clear.
C1_DrainExclusivity ==
    [][\A p \in Flushers :
         ClearStep(p) =>
           \A id \in Cached :
             \/ connectionsCache'[id] = connectionsCache[id]
             \/ connectionsCache[id] \in connsToSave[p]]_vars

C9_BatchAllOrNothing ==
    [][\A p \in Flushers : (SaveStep(p) /\ saveErr'[p]) => store' = store]_vars

\* C9 witness: a flush of two records with a host has failed and none of them is in
\* the Primary Store
C9_Witness ==
    /\ saveErr["timed"]
    /\ flPc["timed"] = "idle"
    /\ store = {}
    /\ \A id \in ConnIds : id \in Cached /\ connectionsCache[id].Host # ""

\* C10 as claimed (loss on flush failure): when the persistence transaction of a flush
\* cycle fails, every record of its batch is absent from the Live Cache and from the
\* Primary Store afterwards.
C10_LossOnFailure ==
    [][\A p \in Flushers :
         (SaveStep(p) /\ saveErr'[p]) =>
           \A c \in connsToSave[p] :
             /\ connectionsCache'[c.ID] = NoConn
             /\ ~ \E r \in store' : r.id = c.ID]_vars

\* C10 as amended: when the persistence transaction of a flush cycle fails, the cycle
\* ends there without its clear: it removes nothing from the Live Cache and changes
\* nothing in the Primary Store, so the records of its batch are not dropped by the
\* cycle and are collected again by the next one.
C10_KeptOnFailure ==
    [][\A p \in Flushers :
         (SaveStep(p) /\ saveErr'[p]) =>
           /\ flPc'[p] = "idle"
           /\ connectionsCache' = connectionsCache
           /\ store' = store]_vars

\* C10 witness: a flush cycle has failed and ended, its record is still cached and
\* is not in the Primary Store
C10_Witness ==
    /\ saveErr["timed"]
    /\ flPc["timed"] = "idle"
    /\ "c1" \in Cached
    /\ connectionsCache["c1"].Host # ""
    /\ ~ \E r \in store : r.id = "c1"

\* C11 (entries leave the cache only on persistence success): a cache entry is deleted
\* only by the clear of a flush cycle whose upsert transaction committed, and when the
\* transaction of a cycle fails the cache still holds an entry for every id the cycle
\* had collected.
C11_ClearOnlyOnSuccess ==
    [][/\ (\E id \in Cached : connectionsCache'[id] = NoConn) =>
             \E p \in Flushers : ClearStep(p) /\ ~saveErr[p]
       /\ \A p \in Flushers :
            (SaveStep(p) /\ saveErr'[p]) =>
              \A c \in connsToSave[p] : connectionsCache'[c.ID] # NoConn]_vars

\* C12 (no loss on signal-based shutdown): main runs one final synchronous flush
\* between the signal and its return, and when the process has exited every record
\* with a host that was in the Live Cache when the signal was received is in the
\* Primary Store with the totals it had in the cache.
C12_NoLossOnSignal ==
    /\ [][(mainPc # "exited" /\ mainPc' = "exited") =>
            (mainPc = "flushing" /\ flPc["final"] = "idle")]_vars
    /\ [](mainPc = "exited" =>
            \A c \in cachedAtSignal :
              \E r \in store :
                r.id = c.id /\ r.upload = c.upload /\ r.download = c.download)

\* main's call of writeCacheToDB is between its first Range and its return
FinalFlushRunning == mainPc = "flushing" /\ flPc["final"] # "idle"

\* C13 (shutdown ordering): while the final flush runs no timed Flusher cycle is in
\* progress and none begins, the Poller puts nothing into the cache, and the process
\* exits only after the final flush has returned.
C13_ShutdownOrdering ==
    /\ [](FinalFlushRunning => flPc["timed"] = "idle")
    /\ [][FinalFlushRunning =>
            /\ flPc'["timed"] = flPc["timed"]
            /\ (connectionsCache' = connectionsCache \/ ClearStep("final"))]_vars
    /\ [][(mainPc # "exited" /\ mainPc' = "exited") =>
            (mainPc = "flushing" /\ flPc["final"] = "idle")]_vars

\* C16 (a failed fetch leaves the cache alone): on every kind of fetch failure the
\* poll tick puts nothing into the Live Cache, the cache after the tick is the cache
\* before it, and the Poller is ready for the next tick.
C16_FetchFailureKeepsCache ==
    /\ [][\A resp \in FailedResponses :
            PollTick(resp) => (pollErr' /\ connectionsCache' = connectionsCache)]_vars
    /\ []((pollErr /\ mainPc # "exited") => ENABLED Poll)

\* C16 witness: a tick has failed while the cache held both records
C16_Witness ==
    /\ pollErr
    /\ Cached = ConnIds
    /\ mainPc = "waiting"

\* the step in which p's call of writeCacheToDB returns
CycleEnd(p) == ClearStep(p) \/ (SaveStep(p) /\ saveErr'[p])

\* the records of a batch that have a host
WithHost(batch) == { c \in batch : c.Host # "" }

\* the upsert of p's batch leaves the store and the error that the upsert of the
\* batch's records with a host, in some order, leaves
SavesAsWithHostOnly(p) ==
    \E order \in Orders(WithHost(connsToSave[p])) :
    \E fail \in UpsertFailures(Len(order)) :
      LET res == BulkUpsertConnections(store, order, fail)
      IN  store' = res.rows /\ saveErr'[p] = res.err

\* no row of the store is written under the id of a record of p's batch without host
HostlessNotWritten(p) ==
    \A c \in connsToSave[p] :
      c.Host = "" => { r \in store' : r.id = c.ID } = { r \in store : r.id = c.ID }

\* C19 as claimed (a record without host is silently discarded): a collected record
\* with empty host is not written to the Primary Store, does not make the batch
\* fail (the upsert ends as it would without the record), and when the flush cycle
\* ends the record is not in the Live Cache.
C19_EmptyHostDiscarded ==
    [][\A p \in Flushers :
         /\ SaveStep(p) => (HostlessNotWritten(p) /\ SavesAsWithHostOnly(p))
         /\ CycleEnd(p) =>
              \A c \in connsToSave[p] : c.Host = "" => connectionsCache'[c.ID] # c]_vars

\* C19 as amended: a collected record with empty host is not written to the Primary
\* Store and does not make the batch fail; when the cycle's transaction committed,
\* the cycle's clear removes it from the Live Cache with every other entry; when the
\* transaction failed for another reason, the cycle removes nothing and the record
\* stays in the cache with the rest of the batch.
C19_EmptyHostSkipped ==
    [][\A p \in Flushers :
         /\ SaveStep(p) => (HostlessNotWritten(p) /\ SavesAsWithHostOnly(p))
         /\ ClearStep(p) =>
              \A c \in connsToSave[p] : c.Host = "" => connectionsCache'[c.ID] = NoConn
         /\ (SaveStep(p) /\ saveErr'[p]) => connectionsCache' = connectionsCache]_vars

\* C19 witness: a flush has committed a batch of a record with a host and one without:
\* the first is stored, the second is not, and the clear is next
C19_Witness ==
    /\ flPc["timed"] = "saved"
    /\ ~saveErr["timed"]
    /\ \E c \in connsToSave["timed"] : c.Host = "" /\ ~ \E r \in store : r.id = c.ID
    /\ \E c \in connsToSave["timed"] : c.Host # "" /\ \E r \in store : r.id = c.ID

\* C20 (a normalized host is never empty): every record the Snapshot Normalizer
\* hands to the Poller has a non-empty host; the Live Cache holds normalized records
\* only, so every cached record has one.
C20_NormalizedHostNonEmpty == \A id \in Cached : connectionsCache[id].Host # ""

(***************************************************************************)
(* Properties of the merge/archive engine (checked under SpecMerge)        *)
(***************************************************************************)
\* the step in which h's Primary Store transaction commits
CommitStep(h) == tx[h] # "committed" /\ tx'[h] = "committed"

\* the step in which h's statements or its Primary commit fail with both
\* transactions open
FailStep(h) == mPc[h] = "queried" /\ mErr'[h] /\ archiveTx'[h] # "none"

\* the bucket of a record: its start rounded down as Time.Truncate does
BucketOf(conn, interval) == TruncateTime(conn.Start, interval * Minute)

\* the (host, bucket) pairs of the records a merge read, and the members of one
GroupsOf(conns, interval) ==
    { <<conns[i].Host, BucketOf(conns[i], interval)>> : i \in DOMAIN conns }

MembersOf(conns, interval, g) ==
    { i \in DOMAIN conns : <<conns[i].Host, BucketOf(conns[i], interval)>> = g }

RECURSIVE SumUpload(_, _)
SumUpload(conns, I) ==
    IF I = {} THEN 0
    ELSE LET i == CHOOSE x \in I : TRUE
         IN  conns[i].Upload + SumUpload(conns, I \ {i})

RECURSIVE SumDownload(_, _)
SumDownload(conns, I) ==
    IF I = {} THEN 0
    ELSE LET i == CHOOSE x \in I : TRUE
         IN  conns[i].Download + SumDownload(conns, I \ {i})

\* the rows of the summaries of group g among the rows a commit adds
SummariesOf(added, interval, g) ==
    { r \in added : r.host = g[1] /\ TruncateTime(r.start, interval * Minute) = g[2] }

\* C3 (merge conservation of sums): for every group of records sharing host and
\* bucket, the summary a merge writes to the Primary Store carries the exact sum of
\* the members' upload and the exact sum of the members' download.
C3_MergeSums ==
    [][\A h \in Handlers :
         CommitStep(h) =>
           LET conns == connectionsToMerge[h]
               w == mReq[h].Interval
           IN  \A g \in GroupsOf(conns, w) :
                 /\ SummariesOf(store' \ store, w, g) # {}
                 /\ \A r \in SummariesOf(store' \ store, w, g) :
                      /\ r.upload = SumUpload(conns, MembersOf(conns, w, g))
                      /\ r.download = SumDownload(conns, MembersOf(conns, w, g))]_vars

\* C3 witness: a merge has committed a summary of a group of two records, (1,3) and
\* (2,5), and the summary carries (3,8)
C3_Witness ==
    \E h \in Handlers :
      /\ tx[h] = "committed"
      /\ Len(connectionsToMerge[h]) >= 2
      /\ Len(mergedConnections[h]) = 1
      /\ \E r \in store : r.id = NewUuid(uuidCount) /\ r.upload = 3 /\ r.download = 8

\* C4 (originals replaced): when a merge commits, the Primary Store holds none of the
\* ids the merge read, and the rows the commit adds are exactly one new row, under an
\* id no row had, for each (host, bucket) pair of the records read.
C4_OriginalsReplaced ==
    [][\A h \in Handlers :
         CommitStep(h) =>
           LET conns == connectionsToMerge[h]
               w == mReq[h].Interval
               added == store' \ store
           IN  /\ \A i \in DOMAIN conns : ~ \E r \in store' : r.id = conns[i].ID
               /\ \A r \in added : ~ \E q \in store : q.id = r.id
               /\ \A r \in added :
                    <<r.host, TruncateTime(r.start, w * Minute)>> \in GroupsOf(conns, w)
               /\ \A g \in GroupsOf(conns, w) :
                    Cardinality(SummariesOf(added, w, g)) = 1]_vars

\* C4 witness: the two a.com records two minutes apart, merged with width 10, have
\* left one a.com row with the summed totals and nothing else
C4_Witness ==
    \E h \in Handlers :
      /\ tx[h] = "committed"
      /\ mReq[h].Interval = 10
      /\ { conn.ID : conn \in Range(connectionsToMerge[h]) } = {"c1", "c3"}
      /\ Cardinality(store) = 1
      /\ \A r \in store : r.host = "a.com" /\ r.upload = 3 /\ r.download = 8

\* C5 (originals preserved in the archive): whenever a merge has answered success
\* after its Primary Store transaction deleted the originals, the Archive Store holds
\* a copy of every one of them.
C5_ArchiveHasOriginals ==
    \A h \in Handlers :
      (mPc[h] = "done" /\ response[h] = "200" /\ tx[h] = "committed") =>
        \A i \in DOMAIN connectionsToMerge[h] :
          \E k \in DOMAIN archive : archive[k].id = connectionsToMerge[h][i].ID

\* C6 (every failure is reported): when a step of mergeAndArchiveConnections failed,
\* the commit of either transaction included, the request is answered with a failure.
C6_FailureReported ==
    \A h \in Handlers :
      (mPc[h] = "done" /\ (mErr[h] \/ tx[h] = "rolledback" \/ archiveTx[h] = "rolledback"))
        => response[h] = "500"

\* C7 (failure rolls back both): a failure at any step after the two transactions
\* were opened, the Primary commit included, rolls back both transactions and leaves
\* both stores as they were.
C7_FailureRollsBackBoth ==
    [][\A h \in Handlers :
         FailStep(h) =>
           /\ tx'[h] = "rolledback"
           /\ archiveTx'[h] = "rolledback"
           /\ store' = store
           /\ archive' = archive]_vars

\* C8 (commit ordering): the Archive Store transaction commits only after the
\* Primary Store transaction of the same merge has committed: archive rows never
\* become durable while the merge's Primary transaction is not committed.
C8_ArchiveAfterPrimary ==
    /\ [](\A h \in Handlers : archiveTx[h] = "committed" => tx[h] = "committed")
    /\ [][archive' # archive =>
            \E h \in Handlers :
              /\ tx[h] = "committed"
              /\ archiveTx[h] = "open"
              /\ archiveTx'[h] = "committed"]_vars

\* C8 witness: a merge has committed its archive rows
C8_Witness ==
    \E h \in Handlers :
      /\ archiveTx[h] = "committed"
      /\ tx[h] = "committed"
      /\ Len(archive) >= 2

\* C15 (no double counting in the Primary Store): the bytes of one connection id are
\* in the Primary Store at most once: while the summary of a committed merge carries
\* the totals of the ids the merge read, the store holds no separate record under one
\* of these ids.
C15_NoDoubleCount ==
    \A h \in Handlers :
      tx[h] = "committed" =>
        \A i \in DOMAIN connectionsToMerge[h] :
          ~ \E r \in store : r.id = connectionsToMerge[h][i].ID

\* C18 (no stored record without a host): in every state reached by flushes and
\* merges every row of the Primary Store has a non-empty host: a flush skips the
\* records without a host and a merged summary takes the host of its group.
C18_StoredHostNonEmpty == \A r \in store : r.host # ""

\* C18 witness: a merge has committed its summaries and a flush has committed a batch
\* with a record without a host
C18_Witness ==
    /\ \E h \in Handlers : tx[h] = "committed" /\ Len(mergedConnections[h]) > 0
    /\ flPc["timed"] = "saved"
    /\ \E c \in connsToSave["timed"] : c.Host = ""
    /\ \E r \in store : r.id \notin {"c1", "c2", "c3"}

\* the step in which h's Archive Store transaction commits
ArchiveCommitStep(h) == archiveTx[h] # "committed" /\ archiveTx'[h] = "committed"

\* no step changes or removes a row of the Archive Store
ArchiveOnlyGrows ==
    /\ Len(archive') >= Len(archive)
    /\ SubSeq(archive', 1, Len(archive)) = archive

\* C24 (archive append-only): no step updates or deletes a row of the Archive
\* Store, and every merge that succeeds (its archive transaction commits, which
\* follows the Primary commit) adds one new row for each record it had selected,
\* in the order read, whether or not rows of the same ids are already there.
C24_ArchiveAppendOnly ==
    /\ [][ArchiveOnlyGrows]_vars
    /\ [][\A h \in Handlers :
            ArchiveCommitStep(h) =>
              LET conns == connectionsToMerge[h]
              IN  /\ Len(archive') = Len(archive) + Len(conns)
                  /\ \A i \in DOMAIN conns :
                       /\ archive'[Len(archive) + i].id = conns[i].ID
                       /\ archive'[Len(archive) + i].upload = conns[i].Upload
                       /\ archive'[Len(archive) + i].download = conns[i].Download]_vars

\* C24 witness: c1 was merged, flushed again and merged again over the same
\* range: the Archive Store holds two rows of c1, one of each merge
C24_Witness ==
    /\ mergeCount = 2
    /\ \A h \in OneClient : archiveTx[h] = "committed" /\ mPc[h] = "done"
    /\ archive[1].id = "c1"
    /\ \E k \in 2..Len(archive) :
         archive[k].id = "c1" /\ archive[1].archived_at < archive[k].archived_at

\* a request with a bad time range or a bucket width that is not positive
Malformed(req) == req.StartDate > req.EndDate \/ req.Interval <= 0

\* C25 (malformed requests are rejected): a merge request whose startTime is
\* after its endTime, or whose bucket width is not positive, is never answered
\* with success, and no step of its handler changes the Primary Store or the
\* Archive Store.
C25_MalformedRejected ==
    /\ [](\A h \in Handlers :
            (mPc[h] = "done" /\ Malformed(mReq[h])) => response[h] # "200")
    /\ [][\A h \in Handlers :
            (Malformed(mReq'[h]) /\ mPc'[h] # mPc[h]) =>
               (store' = store /\ archive' = archive)]_vars

\* startTime <= start <= endTime
InRange(start, req) == req.StartDate <= start /\ start <= req.EndDate

\* the step in which a request arrives at h and its query and scan succeed
QueryStep(h) ==
    /\ mPc[h] \in {"idle", "done"}
    /\ mergeCount' # mergeCount
    /\ mPc'[h] = "queried" \/ (mPc'[h] = "done" /\ response'[h] = "200")

\* C26 (range selection and frame): a merge reads exactly the Primary Store rows
\* whose start lies in [startTime, endTime], both ends included; no step of the
\* merge changes or removes a row whose start is outside the range, every row it
\* adds to the Archive Store has its start inside the range, and the totals of
\* every summary it inserts are sums over records inside the range only.
C26_RangeSelection ==
    /\ [][\A h \in Handlers :
            QueryStep(h) =>
               { conn.ID : conn \in Range(connectionsToMerge'[h]) }
                  = { r.id : r \in { q \in store : InRange(q.start, mReq'[h]) } }]_vars
    /\ [][\A h \in Handlers :
            mPc'[h] # mPc[h] =>
               /\ \A r \in store : ~InRange(r.start, mReq'[h]) => r \in store'
               /\ \A k \in (Len(archive) + 1)..Len(archive') :
                    InRange(archive'[k].start, mReq'[h])]_vars
    /\ [][\A h \in Handlers :
            CommitStep(h) =>
               LET conns == connectionsToMerge[h]
                   w == mReq[h].Interval
               IN  /\ \A i \in DOMAIN conns : InRange(conns[i].Start, mReq[h])
                   /\ \A r \in store' \ store :
                        LET g == <<r.host, TruncateTime(r.start, w * Minute)>>
                        IN  /\ r.upload = SumUpload(conns, MembersOf(conns, w, g))
                            /\ r.download = SumDownload(conns, MembersOf(conns, w, g))]_vars

\* C26 witness: a merge over [0, 120] has committed having read c1 (start 0) and
\* c3 (start 120), and the row of c2 (start 600) is in the store as it was
C26_Witness ==
    \E h \in Handlers :
      /\ tx[h] = "committed"
      /\ mReq[h].StartDate = 0 /\ mReq[h].EndDate = 120
      /\ { conn.ID : conn \in Range(connectionsToMerge[h]) } = {"c1", "c3"}
      /\ \E r \in store : r.id = "c2" /\ r.start = 600 /\ r.upload = 4 /\ r.download = 1
      /\ \A r \in store : r.id \notin {"c1", "c3"}

\* the step in which a request of the client arrives at h, decodes, and its query
\* succeeds
ReadStep(h) ==
    /\ mPc[h] \in {"idle", "done"}
    /\ mergeCount' # mergeCount
    /\ response'[h] # "400"
    /\ ~mErr'[h]

\* C27 (empty range is a no-op): a merge whose range holds no Primary Store row
\* answers success at once: it opens neither transaction and leaves the Primary
\* Store and the Archive Store as they were.
C27_EmptyMergeNoOp ==
    [][\A h \in OneClient :
         (ReadStep(h) /\ ~ \E r \in store : InRange(r.start, mReq'[h])) =>
            /\ mPc'[h] = "done"
            /\ response'[h] = "200"
            /\ tx'[h] = "none"
            /\ archiveTx'[h] = "none"
            /\ store' = store
            /\ archive' = archive]_vars

\* C27 witness: a well-formed merge over [0, 120] was answered with success while
\* the store held only c2 (start 600); no transaction was opened
C27_Witness ==
    \E h \in OneClient :
      /\ mPc[h] = "done"
      /\ response[h] = "200"
      /\ mReq[h] = [StartDate |-> 0, EndDate |-> 120, Interval |-> 10]
      /\ connectionsToMerge[h] = <<>>
      /\ tx[h] = "none" /\ archiveTx[h] = "none"
      /\ archive = <<>>
      /\ { r.id : r \in store } = {"c2"}

\* C28 (singleton groups are merged too): when a merge commits, every group with
\* exactly one record has that record's id gone from the Primary Store and its
\* row put into the archive transaction, and in its place exactly one row with the
\* same host and totals under an id that no record read by the merge and no row of
\* the store had; so no id the merge had selected is left in the Primary Store.
C28_SingletonMerged ==
    [][\A h \in Handlers :
         CommitStep(h) =>
           LET conns == connectionsToMerge[h]
               w == mReq[h].Interval
               added == store' \ store
           IN  /\ \A i \in DOMAIN conns : \A r \in store' : r.id # conns[i].ID
               /\ \A i \in DOMAIN conns :
                    LET g == <<conns[i].Host, BucketOf(conns[i], w)>>
                    IN  MembersOf(conns, w, g) = {i} =>
                          /\ \E k \in DOMAIN archivePending'[h] :
                               archivePending'[h][k].id = conns[i].ID
                          /\ Cardinality(SummariesOf(added, w, g)) = 1
                          /\ \A r \in SummariesOf(added, w, g) :
                               /\ r.host = conns[i].Host
                               /\ r.upload = conns[i].Upload
                               /\ r.download = conns[i].Download
                               /\ \A j \in DOMAIN conns : r.id # conns[j].ID
                               /\ \A q \in store : r.id # q.id]_vars

\* C28 witness: the store held only c2 (b.org, 4/1); a merge over its range has
\* committed and the store holds one b.org row with 4/1 under a generated id
C28_Witness ==
    \E h \in Handlers :
      /\ tx[h] = "committed"
      /\ Len(connectionsToMerge[h]) = 1
      /\ connectionsToMerge[h][1].ID = "c2"
      /\ Cardinality(store) = 1
      /\ \A r \in store :
           r.id = NewUuid(uuidCount) /\ r.host = "b.org" /\ r.upload = 4 /\ r.download = 1

\* C32 (archive copy fidelity): when the archive transaction of a merge commits,
\* the Archive Store gains exactly one row for every record the merge read, with
\* the id, sourceIP, host, upload, download, start and chain of that record as
\* read, and all rows of the merge carry one archived_at.
C32_ArchiveCopyFidelity ==
    [][\A h \in Handlers :
         ArchiveCommitStep(h) =>
           LET conns == connectionsToMerge[h]
               n == Len(archive)
           IN  /\ Len(archive') = n + Len(conns)
               /\ \A i \in DOMAIN conns :
                    /\ archive'[n + i].id = conns[i].ID
                    /\ archive'[n + i].sourceIP = conns[i].SourceIP
                    /\ archive'[n + i].host = conns[i].Host
                    /\ archive'[n + i].upload = conns[i].Upload
                    /\ archive'[n + i].download = conns[i].Download
                    /\ archive'[n + i].start = conns[i].Start
                    /\ <<archive'[n + i].chain>> = conns[i].Chains
                    /\ archive'[n + i].archived_at = archive'[n + 1].archived_at
               /\ \A i, j \in DOMAIN conns : i # j => conns[i].ID # conns[j].ID]_vars

\* C32 witness: a merge of c1 and c3 has committed its archive transaction; the
\* Archive Store holds their two copies, archived at the same time
C32_Witness ==
    /\ Len(archive) = 2
    /\ { archive[1].id, archive[2].id } = {"c1", "c3"}
    /\ archive[1].archived_at = archive[2].archived_at
    /\ \A k \in 1..2 :
         /\ archive[k].host = "a.com" /\ archive[k].chain = "hk1"
         /\ archive[k].id = "c3" => (archive[k].start = 120 /\ archive[k].upload = 2)

\* the sums of the stored upload and download over a set of rows
RECURSIVE StoredUpload(_)
StoredUpload(rows) ==
    IF rows = {} THEN 0
    ELSE LET r == CHOOSE x \in rows : TRUE
         IN  r.upload + StoredUpload(rows \ {r})

RECURSIVE StoredDownload(_)
StoredDownload(rows) ==
    IF rows = {} THEN 0
    ELSE LET r == CHOOSE x \in rows : TRUE
         IN  r.download + StoredDownload(rows \ {r})

\* the rows of the Primary Store that the commit of a merge of conns deletes
DeletedBy(rows, conns) == { r \in rows : \E i \in DOMAIN conns : conns[i].ID = r.id }

\* C35 (merge versus concurrent flush): when a merge commits, the totals it summed
\* into its summaries and copied to the archive equal the totals that the rows it
\* deletes held at the commit, also when a flush wrote to one of them after the
\* merge read it.
C35_NoBytesLostToFlush ==
    [][\A h \in OneClient :
         CommitStep(h) =>
           LET conns == connectionsToMerge[h]
               deleted == DeletedBy(store, conns)
           IN  /\ StoredUpload(store' \ store) = StoredUpload(deleted)
               /\ StoredDownload(store' \ store) = StoredDownload(deleted)
               /\ StoredUpload(Range(archivePending'[h])) = StoredUpload(deleted)
               /\ StoredDownload(Range(archivePending'[h])) = StoredDownload(deleted)]_vars

(***************************************************************************)
(* Properties of concurrent merge requests (checked under                  *)
(* SpecConcurrentMerge)                                                    *)
(***************************************************************************)
\* handler h is between its query and its answer
MergeRunning(h) == mPc[h] \in {"queried", "archiveCommit"}

\* C14 (merges are serialized at the boundary): at most one invocation of the merge
\* engine runs at a time; so no original is archived twice, and a merge that commits
\* sums only originals that are still in the Primary Store (none that another
\* invocation has already summed and deleted).
C14_MergeSerialized ==
    /\ [](\A h, g \in Handlers : (MergeRunning(h) /\ MergeRunning(g)) => h = g)
    /\ [](\A i, j \in DOMAIN archive : archive[i].id = archive[j].id => i = j)
    /\ [][\A h \in Handlers :
            CommitStep(h) =>
              \A i \in DOMAIN connectionsToMerge[h] :
                \E r \in store : r.id = connectionsToMerge[h][i].ID]_vars

(***************************************************************************)
(* Properties of repeated upserts (checked under SpecUpsert)               *)
(***************************************************************************)
\* C17 (an upsert of a stored id touches only the two counters): when a flush commits
\* a record whose id is already in the Primary Store, the row keeps its host, source
\* address, start and chain and takes the record's upload and download, whatever the
\* record carries in the other fields.
C17_UpsertKeepsIdentity ==
    [][\A p \in Flushers :
         (SaveStep(p) /\ ~saveErr'[p]) =>
           \A c \in connsToSave[p] :
             \A r \in store :
               (r.id = c.ID /\ c.Host # "") =>
                 { q \in store' : q.id = c.ID } =
                   { [r EXCEPT !.upload = c.Upload, !.download = c.Download] }]_vars

\* C17 witness: a flush has committed a record that differs from the stored row of
\* its id in host, source address, start and chain, and the row carries the record's
\* totals
C17_Witness ==
    /\ flPc["timed"] = "saved"
    /\ \E c \in connsToSave["timed"] :
       \E r \in store :
         /\ r.id = c.ID
         /\ r.host # c.Host /\ c.Host # ""
         /\ r.sourceIP # c.SourceIP
         /\ r.start # c.Start
         /\ r.chain # LastChain(c)
         /\ r.upload = c.Upload /\ r.download = c.Download

(***************************************************************************)
(* Properties of the Normalizer (checked under SpecNormalize)              *)
(***************************************************************************)
\* the tick that fetched the one-record snapshot <<conn>>
NormalizeStep(conn) == PollTick([kind |-> "ok", snapshot |-> <<conn>>])

\* C21: a record whose host is empty gets its remoteDestination as host before
\* the allow-list is applied, and a record with a host keeps it at that step:
\* with an empty allow-list the cached host is the remoteDestination when the
\* host was empty and the reported host otherwise, and with any allow-list a
\* record with empty host is cached with the host that the same record would
\* get had the Source reported its remoteDestination as host.
C21_FillHostBeforeWhitelist ==
    [][\A conn \in NormalizerInputs :
          NormalizeStep(conn) =>
            LET cached == connectionsCache'[conn.ID]
                asHost == [conn EXCEPT !.Host = conn.RemoteDestination]
            IN  /\ hostSuffixWhitelist = <<>> =>
                     cached.Host = IF conn.Host = "" THEN conn.RemoteDestination
                                   ELSE conn.Host
                /\ conn.Host = "" =>
                     cached.Host = NormalizeConn(asHost, hostSuffixWhitelist).Host
                /\ cached.RemoteDestination = conn.RemoteDestination]_vars

\* C21 witness: with an empty allow-list a record is cached whose host is its
\* remoteDestination 9.9.9.9:443, which no record reports as host
C21_Witness ==
    /\ hostSuffixWhitelist = <<>>
    /\ connectionsCache["c1"] # NoConn
    /\ connectionsCache["c1"].Host = "9.9.9.9:443"
    /\ connectionsCache["c1"].RemoteDestination = "9.9.9.9:443"

\* the host the allow-list loop starts from
FilledHost(conn) == IF conn.Host = "" THEN conn.RemoteDestination ELSE conn.Host

\* the positions of the allow-list whose suffix the host ends with
Matches(host, whitelist) == { i \in DOMAIN whitelist : HasSuffix(host, whitelist[i]) }

\* C22: the allow-list is scanned in configured order and the host is replaced
\* by the first suffix it ends with, whatever later entries match and however
\* long they are; a host that ends with no suffix is left unchanged.
C22_FirstSuffixWins ==
    [][\A conn \in NormalizerInputs :
          NormalizeStep(conn) =>
            LET cached == connectionsCache'[conn.ID]
                at == Matches(FilledHost(conn), hostSuffixWhitelist)
            IN  /\ at = {} => cached.Host = FilledHost(conn)
                /\ \A i \in at :
                     (\A j \in at : i <= j) => cached.Host = hostSuffixWhitelist[i]]_vars

\* C22 witness: under the allow-list v.a.com, a.com a record is cached with host
\* v.a.com; what the Source reported ended with both suffixes
C22_Witness ==
    /\ hostSuffixWhitelist = <<"v.a.com", "a.com">>
    /\ connectionsCache["c1"] # NoConn
    /\ connectionsCache["c1"].Host = "v.a.com"
    /\ connectionsCache["c2"] # NoConn
    /\ connectionsCache["c2"].Host = "b.org"

\* C23: normalization is idempotent: normalizing a normalized record again,
\* with the same allow-list, leaves its host as it is.  Every record of the
\* Live Cache is the output of one normalization.
C23_NormalizeIdempotent ==
    \A id \in ConnIds :
        connectionsCache[id] # NoConn =>
            NormalizeConn(connectionsCache[id], hostSuffixWhitelist).Host
                = connectionsCache[id].Host

(***************************************************************************)
(* Properties of closing connections (checked under SpecTerminal)          *)
(***************************************************************************)
\* C29 (terminal value of a closed connection): when an id was observed and a
\* flush has succeeded after its last observation (the Live Cache no longer holds
\* the id, which only the clear of a successful cycle removes, and no cycle is
\* running), the Primary Store record of the id carries the totals of that last
\* observation.  From such a state the id is never written again unless the
\* Source reports it again.
C29_TerminalValuePersisted ==
    \A id \in ConnIds :
        (/\ lastObserved[id] # NoTotals
         /\ connectionsCache[id] = NoConn
         /\ flPc["timed"] = "idle") =>
            \E r \in store : r.id = id /\ <<r.upload, r.download>> = lastObserved[id]

(***************************************************************************)
(* Properties of the configuration (checked under SpecConfig)              *)
(***************************************************************************)
\* what a .env file defines for a key, "" when it has no such key or does not exist
FileValue(file, key) == IF file = NoFile THEN "" ELSE Getenv(file, key)

\* the first of the .env value and the process environment's value that is set
FileThenEnv(file, env, key) ==
    IF FileValue(file, key) # "" THEN FileValue(file, key) ELSE Getenv(env, key)

\* a text that is a positive number
PositiveNumber(str) == ~Atoi(str).err /\ Atoi(str).n > 0

\* C30 (configuration precedence): every setting takes the flag when it is given,
\* else the value of the .env file, else the value of the process environment,
\* else the default; a key set in both the .env file and the process environment
\* resolves to the value of the .env file.
C30_ConfigPrecedence ==
    [][\A flags \in FlagSets : \A file \in DotEnvFiles :
         LoadConfig(flags, file) =>
           /\ cfg'.ClashAPIURL =
                IF flags.url # "" THEN flags.url
                ELSE IF FileThenEnv(file, osEnv, "CLASH_API_URL") # ""
                     THEN FileThenEnv(file, osEnv, "CLASH_API_URL")
                ELSE DefaultAPIURL
           /\ cfg'.DBWriteInterval =
                Minute *
                (IF flags.i > 0 THEN flags.i
                 ELSE IF PositiveNumber(FileValue(file, "DB_WRITE_INTERVAL_MINUTES"))
                      THEN Atoi(FileValue(file, "DB_WRITE_INTERVAL_MINUTES")).n
                 ELSE IF PositiveNumber(Getenv(osEnv, "DB_WRITE_INTERVAL_MINUTES"))
                      THEN Atoi(Getenv(osEnv, "DB_WRITE_INTERVAL_MINUTES")).n
                 ELSE DefaultWriteIntervalMinutes)
           /\ hostSuffixWhitelist' =
                LoadWhitelist(FileThenEnv(file, osEnv, "HOST_SUFFIX_WHITELIST"))]_vars

SummaryView(rows, interval) ==
    { <<r.host, TruncateTime(r.start, interval * Minute), r.upload, r.download>> :
        r \in rows }

\* C33 (merge is idempotent up to ids): every summary a merge commits has its
\* start inside the merged range and inside the bucket of its group; and when the
\* same request is merged again with no write in between, the commit leaves the
\* Primary Store with the same (host, bucket, upload, download) as before it, the
\* rows of the range being replaced by as many rows under new ids.
C33_RemergeKeepsSummaries ==
    [][\A h \in OneClient :
         CommitStep(h) =>
           LET conns == connectionsToMerge[h]
               w == mReq[h].Interval
               added == store' \ store
               removed == store \ store'
           IN  /\ \A r \in added :
                    /\ InRange(r.start, mReq[h])
                    /\ <<r.host, TruncateTime(r.start, w * Minute)>> \in GroupsOf(conns, w)
               /\ uuidCount > 0 =>
                    /\ SummaryView(store', w) = SummaryView(store, w)
                    /\ Cardinality(added) = Cardinality(removed)
                    /\ \A r \in added : \A q \in store : r.id # q.id
                    /\ removed = { q \in store : InRange(q.start, mReq[h]) }]_vars

\* C33 witness: c1 and c3 were merged with width 10 into one row (3, 8), and the
\* same request merged again has left one row (3, 8) under the second generated id
C33_Witness ==
    \E h \in OneClient :
      /\ mergeCount = 2
      /\ tx[h] = "committed"
      /\ mReq[h].Interval = 10
      /\ uuidCount = 2
      /\ Cardinality(store) = 1
      /\ \A r \in store :
           r.id = NewUuid(2) /\ r.host = "a.com" /\ r.upload = 3 /\ r.download = 8

\* C34 (global traffic conservation): with no other writer, the commit of a merge
\* leaves the sum of upload and the sum of download over all rows of the Primary
\* Store unchanged, and the Primary Store has no more rows after it than before.
C34_TrafficConserved ==
    [][\A h \in OneClient :
         CommitStep(h) =>
           /\ StoredUpload(store') = StoredUpload(store)
           /\ StoredDownload(store') = StoredDownload(store)
           /\ Cardinality(store') <= Cardinality(store)]_vars

\* C34 witness: the three seeded records (1,3), (2,5) and (4,1) were merged with
\* width 10 over the whole range into two rows, and the store still sums to (7, 9)
C34_Witness ==
    \E h \in OneClient :
      /\ mergeCount = 1
      /\ tx[h] = "committed"
      /\ Len(connectionsToMerge[h]) = 3
      /\ Cardinality(store) = 2
      /\ StoredUpload(store) = 7
      /\ StoredDownload(store) = 9

(***************************************************************************)
(* Properties of the flushes up to the exit (checked under SpecShutdown)   *)
(***************************************************************************)
\* C36 (persisted totals never regress): with counters that the Source never
\* decreases, no step of the Poller, the timed Flusher or the shutdown flush lowers
\* the upload or the download stored in the Primary Store for an id.
C36_TotalsNeverRegress ==
    [][\A r \in store : \A q \in store' :
         q.id = r.id => q.upload >= r.upload /\ q.download >= r.download]_vars

\* the step in which a call of writeCacheToDB deletes the keys of the cache
CacheClearStep == \E p \in Flushers : ClearStep(p)

\* the cache after a poll that fetched snapshot b: the entry of every id of b is
\* the normalized record of b, the entry of every other id is what it was
PollFrame(b) ==
    \A id \in ConnIds :
        IF \E i \in DOMAIN b : b[i].ID = id
        THEN \E i \in DOMAIN b :
               /\ b[i].ID = id
               /\ connectionsCache'[id] = NormalizeConn(b[i], hostSuffixWhitelist)
        ELSE connectionsCache'[id] = connectionsCache[id]

\* C37 (frame of a poll): a step that is not the clearing of a flush changes the
\* Live Cache only as the storing of one snapshot does: the entries of the ids of
\* the snapshot are set, the entries of all other ids are unchanged. The totals a
\* poll newly observed for an id are in the cache after it, and an entry leaves the
\* cache only in the clearing step of a flush.
C37_PollFrame ==
    [][/\ ~ CacheClearStep => \E b \in ReportedSnapshots : PollFrame(b)
       /\ \A id \in ConnIds :
            lastObserved'[id] # lastObserved[id] =>
              /\ connectionsCache'[id] # NoConn
              /\ <<connectionsCache'[id].Upload, connectionsCache'[id].Download>>
                   = lastObserved'[id]
       /\ \A id \in ConnIds :
            (connectionsCache[id] # NoConn /\ connectionsCache'[id] = NoConn)
              => CacheClearStep]_vars

\* C37 witness: c2 was polled once and c1 twice; the last snapshot held c1 alone,
\* and the cache holds c1 with the newer totals beside the unflushed entry of c2
C37_Witness ==
    /\ lastObserved["c1"] = <<2, 5>>
    /\ lastObserved["c2"] = <<4, 1>>
    /\ connectionsCache["c1"] # NoConn
    /\ connectionsCache["c1"].Upload = 2
    /\ connectionsCache["c2"] # NoConn
    /\ store = {}
    /\ flPc = [p \in Flushers |-> "idle"]

====
